---------------------------- MODULE Spec2Model ----------------------------
(***************************************************************************)
(* A model of src/content.js: the Google Tasks tag filter content script.  *)
(* Program state (GoogleTasksFilter.state and .dom), the host document the *)
(* script reads and writes, the key-value store behind Storage, and the    *)
(* pending timers and storage requests are the variables.  Every event     *)
(* handler of the script (timer callback, storage callback, click or key   *)
(* handler, MutationObserver callback) is one action.                      *)
(*                                                                         *)
(* Handlers are written as operators from a state record to a state        *)
(* record, so that a handler that calls another (render(), applyFilter(),  *)
(* init()) is the composition of their operators.  JavaScript strings are  *)
(* TLA+ strings, handled one code unit at a time.                          *)
(***************************************************************************)
EXTENDS Integers, Sequences, FiniteSets, TLC

VARIABLES
    tags,           \* this.state.tags: the array of tag strings
    tagsBad,        \* this.state.tags holds a value that is not an array
    activeFilters,  \* this.state.activeFilters: Set of strings
    filterMode,     \* this.state.filterMode: "OR" | "AND"
    isDeleteMode,   \* this.state.isDeleteMode
    container,      \* this.dom.container: "none" (null), "main", "list", or
                    \* "gone" (an element the host removed from the document)
    observerRef,    \* this.dom.observer is not null
    observers,      \* MutationObservers of the script connected to document.body
    debounce,       \* the timer of this.dom.debounce is pending
    debounceTimers, \* pending setTimeout(() => this.applyFilter(), 100) timers
    initTimers,     \* pending setTimeout(this.init, 500) retries
    boot,           \* how many of the two startup timers (line 238-239) fired
    mainEl,         \* the document holds a div[role="main"]
    listEl,         \* the document holds the parent element of the task rows
    rows,           \* the div[role="listitem"] nodes, by slot
    barIn,          \* where #tag-filter-bar is in the document: "none", "main", "list"
    bars,           \* how many nodes with the id tag-filter-bar the document holds
    bar,            \* what the last render() put into the bar that is in the document
    backend,        \* which branch of Storage runs: "chrome" | "local"
    store,          \* the persisted customTags value
    storageQ,       \* chrome.storage requests in flight, oldest first
    errors,         \* the last handler ended in an uncaught exception
    lastOp,         \* history: what the last handler ended by running
    snap,           \* history: the chips and mode of the Filter State when the
                    \* host last removed the bar
    deleted         \* history: tags deleteTag() removed and addTag() did not add again

vars == <<tags, tagsBad, activeFilters, filterMode, isDeleteMode, container,
          observerRef, observers, debounce, debounceTimers, initTimers, boot,
          mainEl, listEl, rows, barIn, bars, bar, backend, store, storageQ,
          errors, lastOp, snap, deleted>>

---------------------------------------------------------------------------
(* Bounds of the model.                                                    *)

MaxRows == 2          \* task rows in the document
MaxTags == 2          \* entries of this.state.tags
MaxQueue == 2         \* chrome.storage requests in flight
MaxInitTimers == 2    \* pending retries of init
MaxDebounce == 2      \* pending timers of applyFilter
MaxBars == 2          \* nodes with the id tag-filter-bar
MaxRawLen == 2        \* length of a string typed into the tag input

---------------------------------------------------------------------------
(* JavaScript strings.                                                     *)

\* The characters of the model's strings: the space, '#', the digits and the
\* ASCII letters.
Uppers == "ABCDEFGHIJKLMNOPQRSTUVWXYZ"
Lowers == "abcdefghijklmnopqrstuvwxyz"
Digits == "0123456789"

CharAt(s, i) == SubSeq(s, i, i)

IndexIn(s, c) == CHOOSE i \in 1..Len(s) : CharAt(s, i) = c

CharsOf(s) == { CharAt(s, i) : i \in 1..Len(s) }

Chars == {" ", "#"} \cup CharsOf(Digits) \cup CharsOf(Uppers) \cup CharsOf(Lowers)

\* The UTF-16 code unit of a character.
CharCode == [ c \in Chars |->
                IF c = " " THEN 32
                ELSE IF c = "#" THEN 35
                ELSE IF c \in CharsOf(Digits) THEN 47 + IndexIn(Digits, c)
                ELSE IF c \in CharsOf(Uppers) THEN 64 + IndexIn(Uppers, c)
                ELSE 96 + IndexIn(Lowers, c) ]

\* String.prototype.toLowerCase on one character: A-Z map to a-z.
LowerChar == [ c \in Chars |->
                 IF c \in CharsOf(Uppers) THEN CharAt(Lowers, IndexIn(Uppers, c)) ELSE c ]

RECURSIVE ToLowerCase(_)
ToLowerCase(s) ==
    IF s = "" THEN "" ELSE LowerChar[Head(s)] \o ToLowerCase(Tail(s))

\* String.prototype.includes: pat occurs in text at some position.
StrIncludes(text, pat) ==
    \E i \in 1..(Len(text) - Len(pat) + 1) : SubSeq(text, i, i + Len(pat) - 1) = pat

\* String.prototype.replace(pat, "") with a string pattern of one character:
\* only the first occurrence is removed.
RECURSIVE ReplaceFirst(_, _)
ReplaceFirst(s, c) ==
    IF s = "" THEN ""
    ELSE IF Head(s) = c THEN Tail(s)
    ELSE Head(s) \o ReplaceFirst(Tail(s), c)

\* String.prototype.trim, for the one white-space character of the model.
RECURSIVE TrimStart(_)
TrimStart(s) == IF s # "" /\ Head(s) = " " THEN TrimStart(Tail(s)) ELSE s

RECURSIVE TrimEnd(_)
TrimEnd(s) ==
    IF s # "" /\ CharAt(s, Len(s)) = " " THEN TrimEnd(SubSeq(s, 1, Len(s) - 1)) ELSE s

Trim(s) == TrimEnd(TrimStart(s))

\* The default comparison of Array.prototype.sort: code units, left to right.
RECURSIVE StrLess(_, _)
StrLess(a, b) ==
    IF b = "" THEN FALSE
    ELSE IF a = "" THEN TRUE
    ELSE IF Head(a) = Head(b) THEN StrLess(Tail(a), Tail(b))
    ELSE CharCode[Head(a)] < CharCode[Head(b)]

\* Array.prototype.sort() without a comparator (stable insertion of each element).
RECURSIVE InsertSorted(_, _)
InsertSorted(x, sorted) ==
    IF sorted = <<>> THEN <<x>>
    ELSE IF StrLess(x, Head(sorted)) THEN <<x>> \o sorted
    ELSE <<Head(sorted)>> \o InsertSorted(x, Tail(sorted))

\* Mutant of SortTags: the array is left in the order it has.
SortTagsNone(arr) == arr

RECURSIVE SortTags(_)
SortTags(arr) ==
    IF arr = <<>> THEN <<>>
    ELSE InsertSorted(arr[Len(arr)], SortTags(SubSeq(arr, 1, Len(arr) - 1)))

\* Array.prototype.includes and Array.prototype.filter(t => t !== tag).
ArrIncludes(arr, x) == \E i \in 1..Len(arr) : arr[i] = x

RECURSIVE ArrWithout(_, _)
ArrWithout(arr, x) ==
    IF arr = <<>> THEN <<>>
    ELSE IF Head(arr) = x THEN ArrWithout(Tail(arr), x)
    ELSE <<Head(arr)>> \o ArrWithout(Tail(arr), x)

\* addTag line 175: val.replace('#', '').toLowerCase().
Normalize(val) == ToLowerCase(ReplaceFirst(val, "#"))

---------------------------------------------------------------------------
(* The inputs of the model.                                                *)

\* innerText of the task rows the host page renders.
RowTexts == {"Add a task", "Buy #Work", "#urgent #workshop"}

\* What the user types into the tag input before committing.
RawInputs == {"#Work", "urgent", " "}
RawInputsHash == {"#Work", "##a", " "}
RawInputsOrder == {"zebra", "#Apple"}

\* Every string of at most MaxRawLen characters out of '#', 'a', 'A' and ' '.
RECURSIVE StringsUpTo(_)
StringsUpTo(n) ==
    IF n = 0 THEN {""}
    ELSE LET shorter == StringsUpTo(n - 1)
         IN  shorter \cup { str \o c : str \in shorter, c \in {"#", "a", "A", " "} }

RawStrings == StringsUpTo(MaxRawLen)

\* The customTags value found at startup: none, or what an earlier run of
\* the script wrote.
AbsentStore == [kind |-> "absent", list |-> <<>>]
ListStore(l) == [kind |-> "list", list |-> l]
InitStores == {AbsentStore, ListStore(<<"work">>)}
TwoTagStores == {ListStore(<<"urgent", "work">>)}
\* addTag persists the array before render sorts it (lines 177-178).
UnsortedStores == {AbsentStore, ListStore(<<"zebra", "apple">>)}

\* Values of customTags that are no array of strings: a falsy value (null),
\* a truthy value that is no array (an object), and, in localStorage, text
\* that is no JSON.
MalformedStores == {[kind |-> k, list |-> <<>>] : k \in {"null", "object", "garbage"}}

Slots == 1..MaxRows

NoRow == [present |-> FALSE, text |-> "", hidden |-> FALSE]
NoBar == [mode |-> "", chips |-> <<>>, del |-> FALSE, controls |-> FALSE, input |-> ""]
NoSnap == [valid |-> FALSE, mode |-> "", chips |-> <<>>]

---------------------------------------------------------------------------
(* The state as one record, and the handlers as operators on it.  Four     *)
(* fields live only while a handler runs: rec (mutation records queued for *)
(* the connected observer), exc (an exception is propagating), over (a     *)
(* bound of the model would be exceeded) and mark (what ran last).         *)

Cur ==
    [tags |-> tags, tagsBad |-> tagsBad, activeFilters |-> activeFilters,
     filterMode |-> filterMode, isDeleteMode |-> isDeleteMode,
     container |-> container, observerRef |-> observerRef,
     observers |-> observers, debounce |-> debounce,
     debounceTimers |-> debounceTimers, bars |-> bars, initTimers |-> initTimers,
     boot |-> boot, mainEl |-> mainEl, listEl |-> listEl, rows |-> rows,
     barIn |-> barIn, bar |-> bar, backend |-> backend, store |-> store,
     storageQ |-> storageQ, errors |-> FALSE, lastOp |-> lastOp, snap |-> snap,
     deleted |-> deleted, rec |-> FALSE, exc |-> FALSE, over |-> FALSE,
     mark |-> "other"]

Assign(t) ==
    /\ tags' = t.tags
    /\ tagsBad' = t.tagsBad
    /\ activeFilters' = t.activeFilters
    /\ filterMode' = t.filterMode
    /\ isDeleteMode' = t.isDeleteMode
    /\ container' = t.container
    /\ observerRef' = t.observerRef
    /\ observers' = t.observers
    /\ debounce' = t.debounce
    /\ debounceTimers' = t.debounceTimers
    /\ bars' = t.bars
    /\ initTimers' = t.initTimers
    /\ boot' = t.boot
    /\ mainEl' = t.mainEl
    /\ listEl' = t.listEl
    /\ rows' = t.rows
    /\ barIn' = t.barIn
    /\ bar' = t.bar
    /\ backend' = t.backend
    /\ store' = t.store
    /\ storageQ' = t.storageQ
    /\ errors' = t.errors
    /\ lastOp' = t.mark
    /\ snap' = t.snap
    /\ deleted' = t.deleted

\* An uncaught TypeError or SyntaxError: the rest of the handler is skipped.
Throw(s) == [s EXCEPT !.exc = TRUE, !.errors = TRUE]

\* The statement after a call runs only if the call returned.
Then(s, F(_)) == IF s.exc \/ s.over THEN s ELSE F(s)

\* A childList mutation under document.body queues a record for each
\* connected observer (line 66: childList, subtree).
Mutated(s) == [s EXCEPT !.rec = @ \/ (s.observers > 0)]

---------------------------------------------------------------------------
(* render, lines 88-135, with renderControls and createChip.               *)

ModeChip(s) == IF s.filterMode = "OR" THEN "Any" ELSE "All"

\* lines 113-132: one chip per tag of the sorted array; a chip keeps the tag
\* and whether it was active when rendered.
Chips(s, sorted) ==
    [i \in 1..Len(sorted) |->
        [tag |-> sorted[i], active |-> ToLowerCase(sorted[i]) \in s.activeFilters]]

\* lines 137-165: the input (empty, disabled in delete mode) and the buttons.
renderControls(s, b) == [b EXCEPT !.controls = TRUE, !.input = ""]

\* Mutant of render: a bar is created and prepended on every render.
renderAlwaysCreates(s) ==
    IF s.container = "none" THEN s
    ELSE IF s.bars >= MaxBars THEN [s EXCEPT !.over = TRUE]
    ELSE
      LET where == IF s.barIn # "none" THEN s.barIn
                   ELSE IF s.container \in {"main", "list"} THEN s.container
                   ELSE "none"
          inDoc == where # "none"
          \* lines 91-110: the bar is found or created, emptied, and gets the mode chip
          modeOnly == [mode |-> ModeChip(s), chips |-> <<>>, del |-> s.isDeleteMode,
                       controls |-> FALSE, input |-> ""]
          made == IF s.container \in {"main", "list"} THEN 1 ELSE 0
          s1 == [(IF inDoc THEN Mutated(s) ELSE s) EXCEPT
                    !.barIn = where,
                    !.bars = @ + made,
                    !.bar = IF inDoc THEN modeOnly ELSE NoBar]
      IN  IF s.tagsBad
          THEN Throw(s1)   \* line 113: this.state.tags.sort is not a function
          ELSE LET sorted == SortTags(s.tags)
               IN  [s1 EXCEPT
                      !.tags = sorted,
                      !.bar = IF inDoc
                              THEN renderControls(s, [modeOnly EXCEPT
                                                        !.chips = Chips(s, sorted)])
                              ELSE NoBar]

render(s) ==
    IF s.container = "none" THEN s
    ELSE IF s.bars >= MaxBars THEN [s EXCEPT !.over = TRUE]
    ELSE
      LET where == IF s.barIn # "none" THEN s.barIn
                   ELSE IF s.container \in {"main", "list"} THEN s.container
                   ELSE "none"
          inDoc == where # "none"
          \* lines 91-110: the bar is found or created, emptied, and gets the mode chip
          modeOnly == [mode |-> ModeChip(s), chips |-> <<>>, del |-> s.isDeleteMode,
                       controls |-> FALSE, input |-> ""]
          \* lines 91-96: a bar is created only where getElementById found none
          made == IF s.barIn = "none" /\ inDoc THEN 1 ELSE 0
          s1 == [(IF inDoc THEN Mutated(s) ELSE s) EXCEPT
                    !.barIn = where,
                    !.bars = @ + made,
                    !.bar = IF inDoc THEN modeOnly ELSE NoBar]
      IN  IF s.tagsBad
          THEN Throw(s1)   \* line 113: this.state.tags.sort is not a function
          ELSE LET sorted == SortTags(s.tags)
               IN  [s1 EXCEPT
                      !.tags = sorted,
                      !.bar = IF inDoc
                              THEN renderControls(s, [modeOnly EXCEPT
                                                        !.chips = Chips(s, sorted)])
                              ELSE NoBar]

---------------------------------------------------------------------------
(* applyFilter, lines 193-234.                                             *)

\* Mutant of Exempt: the "add a task" phrase is not looked for.
ExemptCreateOnly(text) == StrIncludes(text, "create new")

\* lines 202-205: the row of the "add task" control.
Exempt(text) == StrIncludes(text, "add a task") \/ StrIncludes(text, "create new")

\* Mutant of shouldShow: the two modes are exchanged.
shouldShowSwapped(s, text) ==
    IF s.filterMode = "AND"
    THEN Cardinality({tag \in s.activeFilters : StrIncludes(text, "#" \o tag)}) > 0
    ELSE \A tag \in s.activeFilters : StrIncludes(text, "#" \o tag)

\* lines 214-229.
shouldShow(s, text) ==
    IF s.filterMode = "OR"
    THEN Cardinality({tag \in s.activeFilters : StrIncludes(text, "#" \o tag)}) > 0
    ELSE \A tag \in s.activeFilters : StrIncludes(text, "#" \o tag)

\* Mutant of RowHidden: the pass does not look whether ActiveFilters is empty.
RowHiddenNoEmptyCheck(s, row) ==
    LET text == ToLowerCase(row.text)
    IN  IF Exempt(text) THEN FALSE ELSE ~shouldShow(s, text)

\* Whether a row carries task-hidden after the pass, lines 197-232.
RowHidden(s, row) ==
    LET text == ToLowerCase(row.text)
    IN  IF Exempt(text) THEN FALSE
        ELSE IF s.activeFilters = {} THEN FALSE
        ELSE ~shouldShow(s, text)

applyFilter(s) ==
    [s EXCEPT !.rows = [i \in Slots |->
                          IF s.rows[i].present
                          THEN [s.rows[i] EXCEPT !.hidden = RowHidden(s, s.rows[i])]
                          ELSE s.rows[i]],
              !.mark = "applyFilter"]

---------------------------------------------------------------------------
(* startObserver, lines 63-67.  disconnect() also empties the record queue *)
(* of the observer it disconnects.                                         *)

\* Mutant of startObserver: the observer in place is not disconnected (line 64).
startObserverNoDisconnect(s) ==
    [s EXCEPT !.observers = @ + 1,
              !.observerRef = TRUE]

startObserver(s) ==
    [s EXCEPT !.observers = (IF s.observerRef THEN @ - 1 ELSE @) + 1,
              !.observerRef = TRUE,
              !.rec = FALSE]

---------------------------------------------------------------------------
(* Storage, lines 10-28, and the callbacks the script passes to it.        *)

Loaded(l) == [bad |-> FALSE, list |-> l]
LoadedBad == [bad |-> TRUE, list |-> <<>>]

\* line 13: r[key] || [] : an absent or falsy value reads as the empty array.
ChromeRead(st) ==
    IF st.kind \in {"absent", "null"} THEN Loaded(<<>>)
    ELSE IF st.kind = "list" THEN Loaded(st.list)
    ELSE LoadedBad

\* lines 56-60: the callback init passes to Storage.get.
GetCallback(s, v) ==
    Then(Then([s EXCEPT !.tags = v.list, !.tagsBad = v.bad, !.mark = "load"], render),
         startObserver)

\* line 178 and lines 185-188: the callbacks addTag and deleteTag pass to Storage.set.
SetCallback(s, cb) ==
    IF cb = "addTag" THEN render(s) ELSE Then(render(s), applyFilter)

Enqueue(s, req) ==
    IF Len(s.storageQ) >= MaxQueue THEN [s EXCEPT !.over = TRUE]
    ELSE [s EXCEPT !.storageQ = Append(@, req)]

\* Storage.get('customTags', cb), lines 11-18.  chrome.storage answers later;
\* localStorage answers at once: v ? JSON.parse(v) : [].
StorageGet(s) ==
    IF s.backend = "chrome"
    THEN Enqueue(s, [op |-> "get", val |-> <<>>, cb |-> "init"])
    ELSE IF s.store.kind = "absent" THEN GetCallback(s, Loaded(<<>>))
    ELSE IF s.store.kind = "garbage"
         THEN Throw([s EXCEPT !.mark = "load"])      \* JSON.parse: SyntaxError
    ELSE IF s.store.kind = "list" THEN GetCallback(s, Loaded(s.store.list))
    ELSE GetCallback(s, LoadedBad)                    \* null, or an object

\* Storage.set('customTags', this.state.tags, cb), lines 19-27.
StorageSet(s, cb) ==
    IF s.backend = "chrome"
    THEN Enqueue(s, [op |-> "set", val |-> s.tags, cb |-> cb])
    ELSE SetCallback([s EXCEPT !.store = ListStore(s.tags)], cb)

---------------------------------------------------------------------------
(* init, lines 44-61, and handleMutation, lines 69-85.                     *)

\* lines 46-47: the parent of the first task row, else div[role="main"], else null.
Anchor(s) ==
    IF \E i \in Slots : s.rows[i].present THEN "list"
    ELSE IF s.mainEl THEN "main"
    ELSE "none"

\* Mutant of init: an attempt that finds no anchor arms no retry (line 50).
initNoRetry(s) ==
    IF Anchor(s) = "none" THEN s
    ELSE StorageGet([s EXCEPT !.container = Anchor(s)])

init(s) ==
    IF Anchor(s) = "none"
    THEN IF s.initTimers >= MaxInitTimers THEN [s EXCEPT !.over = TRUE]
         ELSE [s EXCEPT !.initTimers = @ + 1]
    ELSE StorageGet([s EXCEPT !.container = Anchor(s)])

\* Mutant of handleMutation: the pending timer is not cleared (line 82).
handleMutationNoClear(s) ==
    IF s.barIn = "none" THEN init(s)
    ELSE IF s.debounceTimers >= MaxDebounce THEN [s EXCEPT !.over = TRUE]
    ELSE [s EXCEPT !.debounce = TRUE, !.debounceTimers = @ + 1]

\* Every record of the observer is a childList record (line 66), so a batch
\* with the bar present always schedules the re-filter.
handleMutation(s) ==
    IF s.barIn = "none" THEN init(s)
    ELSE LET cleared == IF s.debounce THEN s.debounceTimers - 1 ELSE s.debounceTimers
         IN  IF cleared >= MaxDebounce THEN [s EXCEPT !.over = TRUE]
             ELSE [s EXCEPT !.debounce = TRUE, !.debounceTimers = cleared + 1]

\* The microtask after a handler: the queued records go to handleMutation.
RECURSIVE Deliver(_)
Deliver(s) ==
    IF s.rec /\ ~s.over
    THEN Deliver(handleMutation([s EXCEPT !.rec = FALSE, !.exc = FALSE]))
    ELSE s

---------------------------------------------------------------------------
(* addTag, lines 174-180, and deleteTag, lines 182-189.                    *)

\* Mutant of addTag: the tag is pushed whether or not the array holds it.
addTagNoCheck(s, val) ==
    LET clean == Normalize(val)
    IN  IF s.tagsBad THEN Throw(s)
        ELSE IF Len(s.tags) >= MaxTags THEN [s EXCEPT !.over = TRUE]
        ELSE StorageSet([s EXCEPT !.tags = Append(@, clean),
                                  !.deleted = @ \ {clean}], "addTag")

addTag(s, val) ==
    LET clean == Normalize(val)
    IN  IF s.tagsBad THEN Throw(s)
        ELSE IF ArrIncludes(s.tags, clean) THEN s
        ELSE IF Len(s.tags) >= MaxTags THEN [s EXCEPT !.over = TRUE]
        ELSE StorageSet([s EXCEPT !.tags = Append(@, clean),
                                  !.deleted = @ \ {clean}], "addTag")

deleteTag(s, tag) ==
    IF s.tagsBad THEN Throw(s)
    ELSE StorageSet([s EXCEPT !.tags = ArrWithout(@, tag),
                              !.activeFilters = @ \ {tag},
                              !.deleted = @ \cup {tag}], "deleteTag")

---------------------------------------------------------------------------
(* The click and key handlers render wires up.                             *)

\* modeBtn.onclick, lines 103-109.
modeClick(s) ==
    IF s.isDeleteMode THEN s
    ELSE Then(render([s EXCEPT !.filterMode = IF @ = "OR" THEN "AND" ELSE "OR"]),
              applyFilter)

\* btn.onclick of a tag chip, lines 120-130: tag, clean and active are those
\* of the render that made the chip; isDeleteMode is read when clicked.
chipClick(s, chip) ==
    LET clean == ToLowerCase(chip.tag)
    IN  IF s.isDeleteMode THEN deleteTag(s, chip.tag)
        ELSE Then(render([s EXCEPT !.activeFilters =
                                      IF chip.active THEN @ \ {clean}
                                      ELSE @ \cup {clean}]),
                  applyFilter)

\* trashBtn.onclick, lines 158-161.
trashClick(s) == render([s EXCEPT !.isDeleteMode = ~@])

\* commit, line 147, run by Enter in the input and by the add button.
commit(s) == IF Trim(s.bar.input) # "" THEN addTag(s, s.bar.input) ELSE s

---------------------------------------------------------------------------
(* The actions: one per event the page delivers to the script, and one per *)
(* change the host page makes to its document.  An action is the handler   *)
(* followed by the microtask that delivers the mutation records to         *)
(* handleMutation; it is disabled where a bound of the model is reached.   *)

Act(t) ==
    \E handled \in {t} :
        \E d \in {Deliver(handled)} :
            /\ ~d.over
            /\ Assign(d)

\* The user acts on the bar that is in the document.
UserState == [Cur EXCEPT !.snap = NoSnap]

\* lines 238-239: setTimeout(app.init, 500) fires before setTimeout(app.init, 1500).
StartupTimer ==
    /\ boot < 2
    /\ Act(init([Cur EXCEPT !.boot = @ + 1]))

\* line 50: a retry of init.
RetryTimer ==
    /\ initTimers > 0
    /\ Act(init([Cur EXCEPT !.initTimers = @ - 1]))

\* line 83: the quiet period ended.
DebounceTimer ==
    /\ debounceTimers > 0
    /\ \E named \in BOOLEAN :    \* the timer this.dom.debounce names, or another
          /\ named => debounce
          /\ ~named => debounceTimers > (IF debounce THEN 1 ELSE 0)
          /\ Act(applyFilter([Cur EXCEPT !.debounce = IF named THEN FALSE ELSE @,
                                         !.debounceTimers = @ - 1]))

\* chrome.storage serves the oldest request and calls its callback.
StorageComplete ==
    /\ storageQ # <<>>
    /\ LET req == Head(storageQ)
           s == [Cur EXCEPT !.storageQ = Tail(@)]
       IN  IF req.op = "get"
           THEN Act(GetCallback(s, ChromeRead(s.store)))
           ELSE Act(SetCallback([s EXCEPT !.store = ListStore(req.val)], req.cb))

ClickMode ==
    /\ barIn # "none"
    /\ Act(modeClick(UserState))

ClickChip ==
    /\ barIn # "none"
    /\ \E i \in 1..Len(bar.chips) : Act(chipClick(UserState, bar.chips[i]))

ClickTrash ==
    /\ barIn # "none"
    /\ bar.controls
    /\ Act(trashClick(UserState))

\* The user leaves a text in the input and commits it (Enter, or the add
\* button).  The input of a bar rendered in delete mode is disabled (line
\* 145) and keeps the text it has, which is none.
Commit(inputs) ==
    /\ barIn # "none"
    /\ bar.controls
    /\ \E value \in inputs :
          /\ bar.del => value = bar.input
          /\ Act(commit([UserState EXCEPT !.bar.input = value]))

\* The chips, their highlighting and the mode chip a render of the Filter
\* State shows.
SnapOf(s) ==
    [valid |-> TRUE, mode |-> ModeChip(s),
     chips |-> IF s.tagsBad THEN <<>> ELSE Chips(s, SortTags(s.tags))]

\* The host page removes an element: the bar goes with the element that
\* holds it, and this.dom.container is left pointing out of the document.
Detach(s, el) ==
    [s EXCEPT !.barIn = IF @ = el THEN "none" ELSE @,
              !.bars = IF s.barIn = el THEN 0 ELSE @,
              !.bar = IF s.barIn = el THEN NoBar ELSE @,
              !.snap = IF s.barIn = el THEN SnapOf(s) ELSE @,
              !.container = IF @ = el THEN "gone" ELSE @]

HostAddMain ==
    /\ ~mainEl
    /\ Act(Mutated([Cur EXCEPT !.mainEl = TRUE]))

HostRemoveMain ==
    /\ mainEl
    /\ Act(Mutated(Detach([Cur EXCEPT !.mainEl = FALSE], "main")))

HostRemoveList ==
    /\ listEl
    /\ Act(Mutated(Detach([Cur EXCEPT !.listEl = FALSE,
                                      !.rows = [i \in Slots |-> NoRow]], "list")))

\* A fresh row node: it carries no task-hidden class.
FreshRow(text) == [present |-> TRUE, text |-> text, hidden |-> FALSE]

HostAddRow(texts) ==
    \E i \in Slots, text \in texts :
       /\ ~rows[i].present
       /\ Act(Mutated([Cur EXCEPT !.listEl = TRUE, !.rows[i] = FreshRow(text)]))

HostRemoveRow ==
    \E i \in Slots :
       /\ rows[i].present
       /\ Act(Mutated([Cur EXCEPT !.rows[i] = NoRow]))

HostReplaceRow(texts) ==
    \E i \in Slots, text \in texts :
       /\ rows[i].present
       /\ Act(Mutated([Cur EXCEPT !.rows[i] = FreshRow(text)]))

HostRemoveBar ==
    /\ barIn # "none"
    /\ Act(Mutated([Cur EXCEPT !.barIn = IF bars > 1 THEN @ ELSE "none",
                                !.bars = @ - 1,
                                !.bar = IF bars > 1 THEN @ ELSE NoBar,
                                !.snap = SnapOf(Cur)]))

---------------------------------------------------------------------------
(* The specifications.                                                     *)

InitWith(backends, stores) ==
    /\ tags = <<>>
    /\ tagsBad = FALSE
    /\ activeFilters = {}
    /\ filterMode = "OR"
    /\ isDeleteMode = FALSE
    /\ container = "none"
    /\ observerRef = FALSE
    /\ observers = 0
    /\ debounce = FALSE
    /\ debounceTimers = 0
    /\ bars = 0
    /\ initTimers = 0
    /\ boot = 0
    /\ mainEl = FALSE
    /\ listEl = FALSE
    /\ rows = [i \in Slots |-> NoRow]
    /\ barIn = "none"
    /\ bar = NoBar
    /\ backend \in backends
    /\ store \in stores
    /\ storageQ = <<>>
    /\ errors = FALSE
    /\ lastOp = "construct"
    /\ snap = NoSnap
    /\ deleted = {}

Backends == {"chrome", "local"}

\* The whole machine: every handler, every change of the host page.
Init == InitWith(Backends, InitStores)

Next ==
    \/ StartupTimer
    \/ RetryTimer
    \/ DebounceTimer
    \/ StorageComplete
    \/ ClickMode
    \/ ClickChip
    \/ ClickTrash
    \/ Commit(RawInputs)
    \/ HostAddMain
    \/ HostRemoveMain
    \/ HostRemoveList
    \/ HostAddRow(RowTexts)
    \/ HostRemoveRow
    \/ HostReplaceRow(RowTexts)
    \/ HostRemoveBar

Spec == Init /\ [][Next]_vars

\* Filtering: two tags are stored, the host page only adds, replaces and
\* removes task rows, the user toggles filters and the mode and deletes tags.
InitFilter == InitWith(Backends, TwoTagStores)

NextFilter ==
    \/ StartupTimer
    \/ RetryTimer
    \/ DebounceTimer
    \/ StorageComplete
    \/ ClickMode
    \/ ClickChip
    \/ ClickTrash
    \/ HostAddRow(RowTexts)
    \/ HostRemoveRow
    \/ HostReplaceRow(RowTexts)

SpecFilter == InitFilter /\ [][NextFilter]_vars

\* Reconciliation: one tag is stored, the host page changes its document
\* in every way, the user toggles the filter and the mode.
InitHost == InitWith(Backends, {ListStore(<<"urgent">>)})

NextHost ==
    \/ StartupTimer
    \/ RetryTimer
    \/ DebounceTimer
    \/ StorageComplete
    \/ ClickMode
    \/ ClickChip
    \/ HostAddMain
    \/ HostRemoveMain
    \/ HostRemoveList
    \/ HostAddRow(RowTexts)
    \/ HostRemoveRow
    \/ HostReplaceRow(RowTexts)
    \/ HostRemoveBar

SpecHost == InitHost /\ [][NextHost]_vars

\* The vocabulary: the user adds, deletes and selects tags; the host page
\* renders its main element and may remove the bar.
InitTags == InitWith(Backends, InitStores)

NextTags ==
    \/ StartupTimer
    \/ RetryTimer
    \/ DebounceTimer
    \/ StorageComplete
    \/ ClickMode
    \/ ClickChip
    \/ ClickTrash
    \/ Commit(RawInputsHash)
    \/ HostAddMain
    \/ HostRemoveBar

SpecTags == InitTags /\ [][NextTags]_vars

\* Bootstrap over a customTags value that is absent or malformed.
InitLoad == InitWith(Backends, {AbsentStore} \cup MalformedStores)

NextLoad ==
    \/ StartupTimer
    \/ RetryTimer
    \/ DebounceTimer
    \/ StorageComplete
    \/ ClickMode
    \/ HostAddMain
    \/ HostAddRow(RowTexts)
    \/ HostRemoveBar

SpecLoad == InitLoad /\ [][NextLoad]_vars

\* The order of the chips: tags are added and loaded in any order, the host
\* page renders its main element and may remove the bar.
InitOrder == InitWith(Backends, UnsortedStores)

NextOrder ==
    \/ StartupTimer
    \/ RetryTimer
    \/ DebounceTimer
    \/ StorageComplete
    \/ ClickChip
    \/ ClickTrash
    \/ Commit(RawInputsOrder)
    \/ HostAddMain
    \/ HostRemoveBar

SpecOrder == InitOrder /\ [][NextOrder]_vars

\* Bootstrap: the host page renders its main element and its task rows at
\* some time and removes nothing; every timer that is pending fires and
\* every storage request is answered.
InitBoot == InitWith(Backends, InitStores)

NextBoot ==
    \/ StartupTimer
    \/ RetryTimer
    \/ DebounceTimer
    \/ StorageComplete
    \/ HostAddMain
    \/ HostAddRow(RowTexts)

SpecBoot ==
    /\ InitBoot
    /\ [][NextBoot]_vars
    /\ WF_vars(StartupTimer)
    /\ WF_vars(RetryTimer)
    /\ WF_vars(DebounceTimer)
    /\ WF_vars(StorageComplete)

---------------------------------------------------------------------------
(* Properties.                                                             *)

RowText(i) == ToLowerCase(rows[i].text)

\* A task row that is not the "add task" control.
TaskRow(i) == rows[i].present /\ ~Exempt(RowText(i))

HasTag(i, tag) == StrIncludes(RowText(i), "#" \o tag)

\* What ActiveFilters and FilterMode say about a task row.
FilteredOut(i) ==
    /\ activeFilters # {}
    /\ IF filterMode = "OR"
       THEN \A tag \in activeFilters : ~HasTag(i, tag)
       ELSE \E tag \in activeFilters : ~HasTag(i, tag)

\* No timer of the script and no storage callback is pending.
Quiescent == boot = 2 /\ initTimers = 0 /\ debounceTimers = 0 /\ storageQ = <<>>

\* C1: once no timer and no storage callback is pending, the control bar is
\* in the document (where the document holds an anchor for it) and every
\* task row is hidden exactly when ActiveFilters and FilterMode say so.
C1_QuiescentConsistent ==
    Quiescent =>
        /\ Anchor(Cur) # "none" => barIn # "none"
        /\ \A i \in Slots : TaskRow(i) => (rows[i].hidden <=> FilteredOut(i))

\* C2: after applyFilter has run with a non-empty ActiveFilters, a task row
\* is shown under ANY iff its lowercased text holds '#tag' for some active
\* tag, and under ALL iff it holds '#tag' for every active tag; with
\* ActiveFilters = {work, urgent} the row "Buy #Work" is shown under ANY and
\* hidden under ALL.
C2_ShownByMode ==
    (lastOp = "applyFilter" /\ activeFilters # {}) =>
        \A i \in Slots :
            /\ TaskRow(i) /\ filterMode = "OR" =>
                  (~rows[i].hidden <=> \E tag \in activeFilters : HasTag(i, tag))
            /\ TaskRow(i) /\ filterMode = "AND" =>
                  (~rows[i].hidden <=> \A tag \in activeFilters : HasTag(i, tag))
            /\ (rows[i].present /\ rows[i].text = "Buy #Work"
                    /\ activeFilters = {"work", "urgent"}) =>
                  (rows[i].hidden <=> filterMode = "AND")

C2_Witness ==
    /\ lastOp = "applyFilter"
    /\ activeFilters = {"work", "urgent"}
    /\ filterMode = "AND"
    /\ \E i \in Slots : rows[i].present /\ rows[i].text = "Buy #Work" /\ rows[i].hidden
    /\ \E i \in Slots : rows[i].present /\ rows[i].text = "#urgent #workshop"
                           /\ ~rows[i].hidden

\* C3: after applyFilter has run with ActiveFilters empty, no row carries the
\* hidden class, whatever the mode.
C3_EmptyShowsAll ==
    (lastOp = "applyFilter" /\ activeFilters = {}) =>
        \A i \in Slots : rows[i].present => ~rows[i].hidden

\* A pass ran with no active filter, after a tag was deleted, over a task row
\* that holds none of the deleted tags.
C3_Witness ==
    /\ lastOp = "applyFilter"
    /\ activeFilters = {}
    /\ deleted # {}
    /\ \E i \in Slots : TaskRow(i) /\ \A tag \in deleted : ~HasTag(i, tag)

\* C4: a row whose text holds "add a task" never carries the hidden class.
C4_AddTaskRowShown ==
    \A i \in Slots :
        (rows[i].present /\ StrIncludes(RowText(i), "add a task")) => ~rows[i].hidden

C4_Witness ==
    /\ lastOp = "applyFilter"
    /\ activeFilters # {}
    /\ \E i \in Slots :
          /\ rows[i].present
          /\ rows[i].text = "Add a task"
          /\ \A tag \in activeFilters : ~HasTag(i, tag)
    /\ \E i \in Slots : TaskRow(i) /\ rows[i].hidden

\* The tags of an array, as a set.
SetOf(arr) == { arr[i] : i \in 1..Len(arr) }

\* C5: after the host removed the bar and the storage read of the
\* re-bootstrap completed, the bar is back with the chips, the highlighting
\* and the mode of the Filter State as it was at the removal.
C5_BarRestored ==
    (/\ lastOp = "load"
     /\ snap.valid
     /\ \A k \in 1..Len(storageQ) : storageQ[k].op # "get") =>
        /\ barIn # "none"
        /\ bar.mode = snap.mode
        /\ bar.chips = snap.chips

\* C6: once the vocabulary was loaded and no storage request is in flight,
\* the persisted customTags holds exactly the tags of this.state.tags.
C6_PersistedIsTagSet ==
    (observers > 0 /\ storageQ = <<>>) => SetOf(store.list) = SetOf(tags)

\* C7: a deleted tag is in no state a member of ActiveFilters, and the bar
\* holds no chip that selects it as a filter.
C7_DeletedNotSelectable ==
    \A t \in deleted :
        /\ t \notin activeFilters
        /\ ~(/\ barIn # "none"
             /\ ~isDeleteMode
             /\ \E k \in 1..Len(bar.chips) : bar.chips[k].tag = t)

\* C8: in every state and for every input t, addTag(t) after addTag(t) adds
\* no entry and writes nothing to the store.
C8_AddTagTwice ==
    \A raw \in RawStrings :
        LET once == addTag(Cur, raw)
            twice == addTag(once, raw)
        IN  ~once.over =>
               /\ ArrIncludes(once.tags, Normalize(raw))
               /\ twice.tags = once.tags
               /\ twice.store = once.store
               /\ twice.storageQ = once.storageQ

\* The user committed a text that is still in the input, its tag is in the
\* vocabulary and its write is in flight: Enter can be pressed again.
C8_Witness ==
    /\ barIn # "none"
    /\ ~bar.del
    /\ Trim(bar.input) # ""
    /\ ArrIncludes(tags, Normalize(bar.input))
    /\ \E k \in 1..Len(storageQ) : storageQ[k].op = "set" /\ storageQ[k].cb = "addTag"

\* C9: the normalization addTag applies to the committed text is a fixed
\* point: normalize(normalize(t)) = normalize(t).
C9_NormalizeFixedPoint ==
    Normalize(Normalize(bar.input)) = Normalize(bar.input)

\* C10: a load of an absent or malformed customTags raises no error, yields
\* the empty TagSet, renders the bar and starts the observer.
C10_LoadDegrades ==
    (lastOp = "load" /\ store.kind # "list") =>
        /\ ~errors
        /\ ~tagsBad
        /\ tags = <<>>
        /\ observers > 0
        /\ container \in {"main", "list"} => barIn # "none"

\* C11: every click on the mode chip, whatever isDeleteMode is, flips
\* FilterMode and ends with the re-render and the re-filter.
C11_ModeClickFlips ==
    [][ClickMode => (filterMode' # filterMode /\ lastOp' = "applyFilter")]_vars

\* C12: the tag chips of the bar are in lexicographic order of their tags,
\* in whatever order the tags were added or loaded.
C12_ChipsSorted ==
    barIn # "none" =>
        \A i, j \in 1..Len(bar.chips) :
            i < j => ~StrLess(bar.chips[j].tag, bar.chips[i].tag)

\* "zebra" was added or loaded before "apple" and is persisted in that order;
\* the bar shows the two chips.
C12_Witness ==
    /\ barIn # "none"
    /\ store.list = <<"zebra", "apple">>
    /\ Len(bar.chips) = 2
    /\ bar.chips[1].tag = "apple"
    /\ bar.chips[2].tag = "zebra"

\* The host page changes the task rows: one batch of childList records.
RowBatch == HostAddRow(RowTexts) \/ HostRemoveRow \/ HostReplaceRow(RowTexts)

\* C13: at most one timer of applyFilter is pending, and it is the one
\* this.dom.debounce names; every batch of row changes observed while the bar
\* is present leaves exactly one timer pending, however many batches came
\* before it in the quiet period; when the timer fires applyFilter runs and no
\* timer is left, so a burst of batches ends in one run after the last batch.
C13_DebounceSingleSlot ==
    /\ [](debounceTimers <= 1 /\ (debounce <=> debounceTimers = 1))
    /\ [][(RowBatch /\ observers > 0 /\ barIn # "none") =>
              (debounce' /\ debounceTimers' = 1)]_vars
    /\ [][DebounceTimer => (debounceTimers' = 0 /\ lastOp' = "applyFilter")]_vars

\* Two task rows came in two batches since the last pass (both should be
\* hidden and neither is yet) and one timer is pending.
C13_Witness ==
    /\ debounceTimers = 1
    /\ observers = 1
    /\ barIn # "none"
    /\ \A i \in Slots : TaskRow(i) /\ FilteredOut(i) /\ ~rows[i].hidden

\* C14: at most one retry timer of init is pending at any time.
C14_RetrySingleSlot == initTimers <= 1

\* The bar is in the document and the observer watches document.body.
Ready == barIn # "none" /\ observers > 0

\* C15: while the document holds no anchor, every attempt of init made so far
\* has left a retry pending (one per attempt) and nothing was rendered and no
\* observer started; an observer is connected only once the bar was rendered
\* from the loaded tags; and once an anchor is in the document (and stays),
\* the script reaches READY if timers fire and storage requests are answered.
C15_BootstrapLive ==
    /\ []((Anchor(Cur) = "none") =>
            (initTimers = boot /\ container = "none" /\ barIn = "none" /\ observers = 0))
    /\ []((observers > 0) => (lastOp # "construct" /\ barIn # "none" /\ ~tagsBad))
    /\ ((Anchor(Cur) # "none") ~> Ready)

\* Both startup attempts and every retry are over, the storage read was
\* answered by chrome.storage, and the script is READY.
C15_Witness ==
    /\ Ready
    /\ backend = "chrome"
    /\ boot = 2
    /\ initTimers = 0
    /\ storageQ = <<>>

\* C16: this.state.tags holds no tag twice, and every tag is lower-case and
\* does not begin with '#'.
C16_TagSetNormal ==
    /\ \A i, j \in 1..Len(tags) : tags[i] = tags[j] => i = j
    /\ \A i \in 1..Len(tags) :
          /\ ToLowerCase(tags[i]) = tags[i]
          /\ ~(tags[i] # "" /\ Head(tags[i]) = "#")

\* C17: after the render of a bootstrap the bar is a child of the container
\* that bootstrap detected.
C17_BarInAnchor ==
    (lastOp = "load" /\ ~errors) => barIn = container

\* C18: every member of ActiveFilters is a tag of this.state.tags.
C18_ActiveSubset == activeFilters \subseteq SetOf(tags)

\* C19: at most one MutationObserver of the script is connected, and it is
\* the one this.dom.observer names.
C19_OneObserver == observers <= 1 /\ (observerRef <=> observers = 1)

\* The observer was started by a bootstrap, the host removed the bar, and the
\* re-bootstrap has started an observer again.
C19_Witness ==
    /\ observers = 1
    /\ snap.valid
    /\ lastOp = "load"
    /\ barIn # "none"

\* C20: the document holds at most one node with the id tag-filter-bar.
C20_OneBar == bars <= 1 /\ (barIn # "none" <=> bars = 1)

\* The host removed the bar, the re-bootstrap made a new one, and both
\* startup attempts and all storage requests are over.
C20_Witness ==
    /\ bars = 1
    /\ snap.valid
    /\ barIn = container
    /\ boot = 2
    /\ storageQ = <<>>

=============================================================================
